---- MODULE Spec2Model ----
(***************************************************************************)
(* nano-bge: the BGE-M3 forward pass of nano_embeddings/bge/m3/model.py.   *)
(*                                                                         *)
(* A forward call is a sequence of block applications (embedding, then     *)
(* per layer attention and feed-forward, then the three heads).  Inside a  *)
(* forward call a tensor is modelled by its shape: the blocks of the       *)
(* encoder decide faults by shape alone.  The two head methods are also    *)
(* modelled as direct calls on integer-valued tensors (SpecHeads), with    *)
(* the projections computed as affine maps over the integers.              *)
(***************************************************************************)
EXTENDS Integers, Sequences, FiniteSets, TLC

VARIABLES model, rng, call, head

vars == <<model, rng, call, head>>

(***************************************************************************)
(* Bounds of the model.                                                    *)
(***************************************************************************)
MaxLayers == 2
MaxBatch == 2
MaxSeq == 3
MaxDim == 2
VocabSize == 5
MaxSeed == 1

Dims == 1..MaxDim
AttnDims == 2..(MaxDim + 1)
PositionSizes == {MaxSeq - 1, MaxSeq}
DropoutProbs == {0, 10}

(***************************************************************************)
(* Outcomes of an operation: a value, or a fault (a raised exception).     *)
(***************************************************************************)
Ok(v) == [ok |-> TRUE, val |-> v]

Fault(exc, at) == [ok |-> FALSE, exc |-> exc, at |-> at]

RECURSIVE SumTo(_, _)
SumTo(f, n) == IF n = 0 THEN 0 ELSE f[n - 1] + SumTo(f, n - 1)

(***************************************************************************)
(* Shapes of the caller's tensors: input_ids is a (B,T) matrix, indexed    *)
(* from 0 as in the source.                                                *)
(***************************************************************************)
Size0(x) == Cardinality(DOMAIN x)

Size1(x) == Cardinality(DOMAIN x[0])

(***************************************************************************)
(* Configurations (BgeConfig): the fields the model reads.                 *)
(***************************************************************************)
Configs ==
    [word_size : {VocabSize}, embed_dim : Dims, position_size : PositionSizes,
     attn_dim : AttnDims, attn_output_dim : Dims, hidden_size : {MaxDim},
     num_heads : Dims, num_of_attn_layers : 0..MaxLayers,
     dropout_prob : DropoutProbs]

(***************************************************************************)
(* nn.Linear(in, out): created with arbitrary initial weights; the weights *)
(* are drawn by a seed.  nn.Embedding(rows, dim) and nn.LayerNorm(dim)     *)
(* are kept by their sizes.                                                *)
(***************************************************************************)
WeightOf(seed, o, i) == ((seed + o + 2 * i) % 3) - 1

BiasOf(seed, o) == (seed + o) % 2

NewLinear(in, out, seed) ==
    [in_features |-> in, out_features |-> out,
     weight |-> [o \in 0..(out - 1) |-> [i \in 0..(in - 1) |-> WeightOf(seed, o, i)]],
     bias |-> [o \in 0..(out - 1) |-> BiasOf(seed, o)]]

NewEmbeddingTable(rows, dim) == [num_embeddings |-> rows, embedding_dim |-> dim]

NewBgeM3Embedding(config) ==
    [word_embedding |-> NewEmbeddingTable(config.word_size, config.embed_dim),
     position_embedding |-> NewEmbeddingTable(config.position_size, config.embed_dim),
     token_type_embedding |-> NewEmbeddingTable(1, config.embed_dim),
     LayerNorm |-> config.embed_dim]

NewMultiHeadSelfAttention(config, seed) ==
    [attn_dim |-> config.attn_dim, num_heads |-> config.num_heads,
     q |-> NewLinear(config.embed_dim, config.attn_dim, seed),
     k |-> NewLinear(config.embed_dim, config.attn_dim, seed),
     v |-> NewLinear(config.embed_dim, config.attn_dim, seed),
     o |-> NewLinear(config.attn_dim, config.attn_output_dim, seed),
     LayerNorm |-> config.attn_output_dim]

NewFFN(config, seed) ==
    [fc1 |-> NewLinear(config.attn_output_dim, config.hidden_size, seed),
     fc2 |-> NewLinear(config.hidden_size, config.attn_output_dim, seed),
     dropout_prob |-> config.dropout_prob,
     LayerNorm |-> config.attn_output_dim]

NewBgeAttention(config, seed) ==
    [attention |-> NewMultiHeadSelfAttention(config, seed), ffn |-> NewFFN(config, seed)]

(***************************************************************************)
(* BgeM3.__init__: the attributes the constructor binds, and no others.    *)
(* training is nn.Module's flag, TRUE after construction.                  *)
(***************************************************************************)
NewBgeM3(config, seed) ==
    [config |-> config,
     training |-> TRUE,
     num_of_attn_layers |-> config.num_of_attn_layers,
     embedding |-> NewBgeM3Embedding(config),
     attentions |-> [i \in 1..config.num_of_attn_layers |-> NewBgeAttention(config, seed)],
     sparse_linear |-> NewLinear(config.embed_dim, config.word_size, seed),
     colbert_linear |-> NewLinear(config.embed_dim, config.embed_dim, seed)]

HasAttr(m, name) == name \in DOMAIN m

(***************************************************************************)
(* Shape-level blocks.  A hidden state of shape (B,T,D) is <<B,T,D>>.      *)
(***************************************************************************)
(* A projection that does not compare its input's width with in_features. *)
LinearShapeUnchecked(lin, shape, at) ==
    Ok([shape EXCEPT ![Len(shape)] = lin.out_features])

LinearShape(lin, shape, at) ==
    IF shape[Len(shape)] = lin.in_features
    THEN Ok([shape EXCEPT ![Len(shape)] = lin.out_features])
    ELSE Fault("RuntimeError", at)

(* A lookup that clamps its indices into the table instead of faulting. *)
EmbeddingLookupClamped(table, indices, at) == Ok(table.embedding_dim)

(* nn.Embedding lookup: every index must address a row of the table. *)
EmbeddingLookup(table, indices, at) ==
    IF \A i \in indices : 0 <= i /\ i < table.num_embeddings
    THEN Ok(table.embedding_dim)
    ELSE Fault("IndexError", at)

Entries(ids) == {ids[b][t] : b \in DOMAIN ids, t \in DOMAIN ids[0]}

(* BgeM3Embedding.forward *)
BgeM3Embedding_forward(emb, input_ids, token_type_ids) ==
    LET B == Size0(input_ids)
        T == Size1(input_ids)
        word_embed == EmbeddingLookup(emb.word_embedding, Entries(input_ids), "word_embedding")
        position_ids == 0..(T - 1)
        position_embed == EmbeddingLookup(emb.position_embedding, position_ids, "position_embedding")
        type_ids == IF token_type_ids.present THEN Entries(token_type_ids.val) ELSE {0}
        token_type_embed == EmbeddingLookup(emb.token_type_embedding, type_ids, "token_type_embedding")
    IN  IF ~word_embed.ok THEN word_embed
        ELSE IF ~position_embed.ok THEN position_embed
        ELSE IF ~token_type_embed.ok THEN token_type_embed
        ELSE Ok(<<B, T, emb.LayerNorm>>)

(* A reshape that keeps num_heads * head_dim entries and drops the rest. *)
ViewTruncating(shape, num_heads, head_dim, at) ==
    Ok(<<shape[1], num_heads, shape[2], head_dim>>)

(* Tensor.view(batch_size, seq_length, num_heads, head_dim): the element   *)
(* count of the new shape must equal that of the tensor.                   *)
View(shape, num_heads, head_dim, at) ==
    IF shape[3] = num_heads * head_dim
    THEN Ok(<<shape[1], num_heads, shape[2], head_dim>>)
    ELSE Fault("RuntimeError", at)

(* MultiHeadSelfAttention.forward *)
MultiHeadSelfAttention_forward(att, x) ==
    LET num_heads == att.num_heads
        attn_dim == att.attn_dim
        head_dim == attn_dim \div num_heads
        ql == LinearShape(att.q, x, "attention.q")
        q == View(ql.val, num_heads, head_dim, "attention.view")
        merged == <<x[1], x[2], num_heads * head_dim>>
        out == LinearShape(att.o, merged, "attention.o")
    IN  IF ~ql.ok THEN ql
        ELSE IF ~q.ok THEN q
        ELSE IF ~out.ok THEN out
        ELSE IF out.val[3] # att.LayerNorm THEN Fault("RuntimeError", "attention.LayerNorm")
        ELSE out

(* nn.Dropout: in training mode with p > 0 it draws from the global        *)
(* generator; otherwise it returns its input.                              *)
DropoutDraws(training, p) == IF training /\ p > 0 THEN 1 ELSE 0

(* FFN.forward *)
FFN_forward(ffn, x) ==
    LET h == LinearShape(ffn.fc1, x, "ffn.fc1")
        out == LinearShape(ffn.fc2, h.val, "ffn.fc2")
    IN  IF ~h.ok THEN h
        ELSE IF ~out.ok THEN out
        ELSE IF out.val # x THEN Fault("RuntimeError", "ffn.residual")
        ELSE IF out.val[3] # ffn.LayerNorm THEN Fault("RuntimeError", "ffn.LayerNorm")
        ELSE out

(***************************************************************************)
(* Integer-valued tensors for the heads: a hidden state is                 *)
(* hidden[b][t][d], all axes indexed from 0.                               *)
(***************************************************************************)
ShapeOf(hidden) == <<Size0(hidden), Size1(hidden), Cardinality(DOMAIN hidden[0][0])>>

Max(a, b) == IF a >= b THEN a ELSE b

RECURSIVE MaxTo(_, _)
MaxTo(f, n) == IF n = 1 THEN f[0] ELSE Max(f[n - 1], MaxTo(f, n - 1))

(* nn.Linear on one vector: weight . x + bias *)
Linear(lin, x) ==
    [o \in 0..(lin.out_features - 1) |->
        SumTo([i \in 0..(lin.in_features - 1) |-> lin.weight[o][i] * x[i]], lin.in_features)
        + lin.bias[o]]

relu(x) == IF x > 0 THEN x ELSE 0

(* torch.scatter(self, dim=-1, index, src): for every k below the index's  *)
(* last size, self[b][t][index[b][t][k]] = src[b][t][k].                   *)
Scatter(zeros, index, src) ==
    [b \in DOMAIN zeros |-> [t \in DOMAIN zeros[b] |-> [v \in DOMAIN zeros[b][t] |->
        IF \E k \in DOMAIN index[b][t] : index[b][t][k] = v
        THEN src[b][t][CHOOSE k \in DOMAIN index[b][t] : index[b][t][k] = v]
        ELSE zeros[b][t][v]]]]

(***************************************************************************)
(* BgeM3._sparse_embedding: what it raises, or the shape it returns.       *)
(***************************************************************************)
_sparse_embedding_shape(m, shape, input_ids, return_embedding) ==
    LET token_weights == LinearShape(m.sparse_linear, shape, "sparse_linear")
    IN  IF ~token_weights.ok THEN token_weights
        ELSE IF ~return_embedding THEN token_weights
        ELSE IF ~HasAttr(m, "vocab_size") THEN Fault("AttributeError", "vocab_size")
        ELSE IF \/ Size0(input_ids) > shape[1]
                \/ Size1(input_ids) > shape[2]
                \/ \E i \in Entries(input_ids) : i < 0 \/ i >= m.vocab_size
             THEN Fault("RuntimeError", "scatter")
        ELSE IF ~HasAttr(m, "tokenizer") THEN Fault("AttributeError", "tokenizer")
        ELSE IF \E u \in DOMAIN m.tokenizer : m.tokenizer[u] >= m.vocab_size
             THEN Fault("IndexError", "unused_tokens")
        ELSE Ok(<<Size0(input_ids), m.vocab_size>>)

(***************************************************************************)
(* BgeM3._sparse_embedding on values.                                      *)
(***************************************************************************)
_sparse_embedding(m, hidden_state, input_ids, return_embedding) ==
    LET checked == _sparse_embedding_shape(m, ShapeOf(hidden_state), input_ids, return_embedding)
        token_weights ==
            [b \in DOMAIN hidden_state |-> [t \in DOMAIN hidden_state[b] |->
                LET w == Linear(m.sparse_linear, hidden_state[b][t])
                IN  [v \in DOMAIN w |-> relu(w[v])]]]
        B == Size0(input_ids)
        T == Size1(input_ids)
        zeros == [b \in 0..(B - 1) |-> [t \in 0..(T - 1) |-> [v \in 0..(m.vocab_size - 1) |-> 0]]]
        index == [b \in 0..(B - 1) |-> [t \in 0..(T - 1) |-> [k \in {0} |-> input_ids[b][t]]]]
        scattered == Scatter(zeros, index, token_weights)
        unused_tokens == {m.tokenizer.cls_token_id, m.tokenizer.eos_token_id,
                          m.tokenizer.pad_token_id, m.tokenizer.unk_token_id}
        pooled == [b \in 0..(B - 1) |-> [v \in 0..(m.vocab_size - 1) |->
                      MaxTo([t \in 0..(T - 1) |-> scattered[b][t][v]], T)]]
    IN  IF ~checked.ok THEN checked
        ELSE IF ~return_embedding THEN Ok(token_weights)
        ELSE Ok([b \in 0..(B - 1) |-> [v \in 0..(m.vocab_size - 1) |->
                    IF v \in unused_tokens THEN pooled[b][v] * 0 ELSE pooled[b][v]]])

(***************************************************************************)
(* BgeM3._colbert_embedding: what it raises, or the shape it returns.      *)
(* The mask always has the hidden state's (B,T) here, so the product       *)
(* broadcasts over the last axis only.                                     *)
(***************************************************************************)
_colbert_embedding_shape(m, shape, mask) ==
    LET colbert_vecs == LinearShape(m.colbert_linear, <<shape[1], shape[2] - 1, shape[3]>>,
                                    "colbert_linear")
    IN  colbert_vecs

(* The multi-vector head with the mask not sliced: row t takes the mask of *)
(* position t instead of position t + 1.                                   *)
_colbert_embedding_unsliced_mask(m, last_hidden_state, mask) ==
    LET checked == _colbert_embedding_shape(m, ShapeOf(last_hidden_state), mask)
        B == Size0(last_hidden_state)
        T == Size1(last_hidden_state)
    IN  IF ~checked.ok THEN checked
        ELSE Ok([b \in 0..(B - 1) |-> [t \in 0..(T - 2) |->
                    LET colbert_vec == Linear(m.colbert_linear, last_hidden_state[b][t + 1])
                    IN  [o \in DOMAIN colbert_vec |-> colbert_vec[o] * mask[b][t]]]])

(***************************************************************************)
(* BgeM3._colbert_embedding on values: mask.float() is the mask entry      *)
(* as a number (a boolean mask gives 0 or 1, an integer mask its value).   *)
(***************************************************************************)
_colbert_embedding(m, last_hidden_state, mask) ==
    LET checked == _colbert_embedding_shape(m, ShapeOf(last_hidden_state), mask)
        B == Size0(last_hidden_state)
        T == Size1(last_hidden_state)
    IN  IF ~checked.ok THEN checked
        ELSE Ok([b \in 0..(B - 1) |-> [t \in 0..(T - 2) |->
                    LET colbert_vec == Linear(m.colbert_linear, last_hidden_state[b][t + 1])
                    IN  [o \in DOMAIN colbert_vec |-> colbert_vec[o] * mask[b][t + 1]]]])

(***************************************************************************)
(* A forward call: BgeM3.forward(input_ids, token_type_ids).               *)
(*   pc      where the call stands: "embedding", "attention", "ffn",       *)
(*           "heads", "done"                                               *)
(*   out     the shape of the local variable out                           *)
(*   layer   how many elements of self.attentions the loop has finished    *)
(*   trace   the blocks that have returned, in order                       *)
(*   reads   the heads that were entered, with the tensor each was handed  *)
(*   result  what the call gave its caller                                 *)
(***************************************************************************)
NoResult == Fault("none", "none")

NewCall(input_ids, token_type_ids) ==
    [pc |-> "embedding", input_ids |-> input_ids, token_type_ids |-> token_type_ids,
     out |-> <<>>, layer |-> 0, trace |-> <<>>, reads |-> <<>>, result |-> NoResult]

Block(name, layer, expects, got, emits) ==
    [block |-> name, layer |-> layer, expects |-> expects, got |-> got, emits |-> emits]

Raise(c, fault) ==
    call' = [call EXCEPT ![c] = [@ EXCEPT !.pc = "done", !.result = fault]]

(* The embedding step zeroing the caller's type ids in place               *)
(* (token_type_ids.zero_()) instead of leaving them alone.                 *)
EmbeddingForwardInPlace(c) ==
    /\ call[c].pc = "embedding"
    /\ LET zeroed == IF call[c].token_type_ids.present
                     THEN [present |-> TRUE,
                           val |-> [b \in DOMAIN call[c].input_ids |->
                                      [t \in DOMAIN call[c].input_ids[b] |-> 0]]]
                     ELSE call[c].token_type_ids
           r == BgeM3Embedding_forward(model.embedding, call[c].input_ids, zeroed)
       IN  IF r.ok
           THEN call' = [call EXCEPT ![c] = [@ EXCEPT
                    !.token_type_ids = zeroed,
                    !.out = r.val,
                    !.pc = IF model.num_of_attn_layers = 0 THEN "heads" ELSE "attention",
                    !.trace = Append(@, Block("embedding", 0, 0, 0, r.val[3]))]]
           ELSE Raise(c, r)
    /\ UNCHANGED <<model, rng, head>>

(* line 176: embed = self.embedding(input_ids, token_type_ids); out = embed *)
EmbeddingForward(c) ==
    /\ call[c].pc = "embedding"
    /\ LET r == BgeM3Embedding_forward(model.embedding, call[c].input_ids, call[c].token_type_ids)
       IN  IF r.ok
           THEN call' = [call EXCEPT ![c] = [@ EXCEPT
                    !.out = r.val,
                    !.pc = IF model.num_of_attn_layers = 0 THEN "heads" ELSE "attention",
                    !.trace = Append(@, Block("embedding", 0, 0, 0, r.val[3]))]]
           ELSE Raise(c, r)
    /\ UNCHANGED <<model, rng, head>>

(* lines 181-182 and 144: out = self.attention(x) of the next layer *)
AttentionForward(c) ==
    /\ call[c].pc = "attention"
    /\ LET att == model.attentions[call[c].layer + 1].attention
           x == call[c].out
           r == MultiHeadSelfAttention_forward(att, x)
       IN  IF r.ok
           THEN call' = [call EXCEPT ![c] = [@ EXCEPT
                    !.out = r.val,
                    !.pc = "ffn",
                    !.trace = Append(@, Block("attention", call[c].layer + 1,
                                              att.q.in_features, x[3], r.val[3]))]]
           ELSE Raise(c, r)
    /\ UNCHANGED <<model, rng, head>>

(* The loop leaving after its first element. *)
FFNForwardEarlyExit(c) ==
    /\ call[c].pc = "ffn"
    /\ LET ffn == model.attentions[call[c].layer + 1].ffn
           x == call[c].out
           r == FFN_forward(ffn, x)
       IN  IF r.ok
           THEN /\ call' = [call EXCEPT ![c] = [@ EXCEPT
                    !.out = r.val,
                    !.layer = @ + 1,
                    !.pc = "heads",
                    !.trace = Append(@, Block("ffn", call[c].layer + 1,
                                              ffn.fc1.in_features, x[3], r.val[3]))]]
                /\ rng' = rng + DropoutDraws(model.training, ffn.dropout_prob)
           ELSE Raise(c, r) /\ rng' = rng
    /\ UNCHANGED <<model, head>>

(* line 147: out = self.ffn(out), then the loop's next element *)
FFNForward(c) ==
    /\ call[c].pc = "ffn"
    /\ LET ffn == model.attentions[call[c].layer + 1].ffn
           x == call[c].out
           r == FFN_forward(ffn, x)
       IN  IF r.ok
           THEN /\ call' = [call EXCEPT ![c] = [@ EXCEPT
                    !.out = r.val,
                    !.layer = @ + 1,
                    !.pc = IF call[c].layer + 1 = model.num_of_attn_layers
                           THEN "heads" ELSE "attention",
                    !.trace = Append(@, Block("ffn", call[c].layer + 1,
                                              ffn.fc1.in_features, x[3], r.val[3]))]]
                /\ rng' = rng + DropoutDraws(model.training, ffn.dropout_prob)
           ELSE Raise(c, r) /\ rng' = rng
    /\ UNCHANGED <<model, head>>

Read(name, c, expects) ==
    [head |-> name, src |-> Len(call[c].trace), expects |-> expects, got |-> call[c].out[3]]

(* lines 185-192: the dense slice, the sparse head, the multi-vector head, *)
(* the return.                                                              *)
HeadsForward(c) ==
    /\ call[c].pc = "heads"
    /\ LET out == call[c].out
           input_ids == call[c].input_ids
           dense_retrieval_vec == <<out[1], out[3]>>
           sparse_retrieval_vec == _sparse_embedding_shape(model, out, input_ids, TRUE)
           colbert_retrieval_vec == _colbert_embedding_shape(model, out, input_ids)
           entered == <<Read("dense", c, out[3]),
                        Read("sparse", c, model.sparse_linear.in_features)>>
                      \o (IF sparse_retrieval_vec.ok
                          THEN <<Read("colbert", c, model.colbert_linear.in_features)>>
                          ELSE <<>>)
           result == IF ~sparse_retrieval_vec.ok THEN sparse_retrieval_vec
                     ELSE IF ~colbert_retrieval_vec.ok THEN colbert_retrieval_vec
                     ELSE Ok([dense |-> dense_retrieval_vec,
                              sparse |-> sparse_retrieval_vec.val,
                              colbert |-> colbert_retrieval_vec.val])
       IN  call' = [call EXCEPT ![c] = [@ EXCEPT
                    !.pc = "done", !.reads = entered, !.result = result]]
    /\ UNCHANGED <<model, rng, head>>

(***************************************************************************)
(* Direct calls of the two head methods on integer-valued tensors.         *)
(***************************************************************************)
NoHead == [pc |-> "none"]

SparseEmbeddingCall ==
    /\ head.pc = "call"
    /\ head.fn = "_sparse_embedding"
    /\ head' = [head EXCEPT !.pc = "done",
                   !.result = _sparse_embedding(model, head.hidden_state, head.input_ids,
                                                head.return_embedding)]
    /\ UNCHANGED <<model, rng, call>>

ColbertEmbeddingCall ==
    /\ head.pc = "call"
    /\ head.fn = "_colbert_embedding"
    /\ head' = [head EXCEPT !.pc = "done",
                   !.result = _colbert_embedding(model, head.hidden_state, head.mask)]
    /\ UNCHANGED <<model, rng, call>>

(***************************************************************************)
(* Inputs.                                                                  *)
(***************************************************************************)
Cells(B, T) == (0..(B - 1)) \X (0..(T - 1))

(* A batch of ids: a valid token everywhere but one cell of the last row,  *)
(* which holds id 0, a valid token, or the first id outside the vocabulary. *)
Batches(B, T, V) ==
    {[b \in 0..(B - 1) |-> [t \in 0..(T - 1) |-> IF <<b, t>> = cell THEN id ELSE V - 1]] :
        cell \in {B - 1} \X (0..(T - 1)), id \in {0, V - 1, V}}

(* Type ids: absent, all zero, or with one entry 1. *)
TypeIds(B, T) ==
    {[present |-> FALSE]} \cup
    {[present |-> TRUE,
      val |-> [b \in 0..(B - 1) |-> [t \in 0..(T - 1) |->
                  IF <<b, t>> = <<B - 1, T - 1>> THEN id ELSE 0]]] : id \in {0, 1}}

Calls(V) ==
    UNION {{NewCall(ids, types) : ids \in Batches(B, T, V), types \in TypeIds(B, T)} :
              B \in 1..MaxBatch, T \in 1..MaxSeq}

Init ==
    /\ \E config \in Configs : model = NewBgeM3(config, 0)
    /\ rng = 0
    /\ call \in [{1} -> Calls(VocabSize)]
    /\ head = NoHead

Next ==
    \/ \E c \in DOMAIN call : EmbeddingForward(c)
    \/ \E c \in DOMAIN call : AttentionForward(c)
    \/ \E c \in DOMAIN call : FFNForward(c)
    \/ \E c \in DOMAIN call : HeadsForward(c)

Spec == Init /\ [][Next]_vars

(***************************************************************************)
(* SpecHeads: the two head methods called directly.  The model is built    *)
(* with no encoder layer; the hidden state handed to a head has width D,   *)
(* which may differ from the width E the head projections were built for.  *)
(***************************************************************************)
HiddenOf(seed, B, T, D) ==
    [b \in 0..(B - 1) |-> [t \in 0..(T - 1) |-> [d \in 0..(D - 1) |->
        ((seed + 2 * b + t + (t + 1) * d) % 3) - 1]]]

(* Matrices with one value everywhere but one cell. *)
MatricesOf(B, T, S) ==
    {[b \in 0..(B - 1) |-> [t \in 0..(T - 1) |-> IF <<b, t>> = cell THEN x ELSE y]] :
        cell \in Cells(B, T), x \in S, y \in S}

MaskValues == {0, 1, 2}

HeadConfigs ==
    {config \in Configs :
        /\ config.num_of_attn_layers = 0
        /\ config.attn_dim = 2
        /\ config.num_heads = 1
        /\ config.attn_output_dim = config.embed_dim
        /\ config.position_size = MaxSeq
        /\ config.dropout_prob = 0}

HeadCalls(V) ==
    UNION {
        {[pc |-> "call", fn |-> "_sparse_embedding", hidden_state |-> HiddenOf(seed, B, T, D),
          input_ids |-> ids, return_embedding |-> ret, result |-> NoResult] :
            seed \in 0..MaxSeed, D \in Dims, ids \in MatricesOf(B, T, {0, V - 1}),
            ret \in BOOLEAN}
        \cup
        {[pc |-> "call", fn |-> "_colbert_embedding", hidden_state |-> HiddenOf(seed, B, T, D),
          mask |-> mask, result |-> NoResult] :
            seed \in 0..MaxSeed, D \in Dims, mask \in MatricesOf(B, T, MaskValues)} :
        B \in 1..MaxBatch, T \in 1..MaxSeq}

InitHeads ==
    /\ \E config \in HeadConfigs, seed \in 0..MaxSeed : model = NewBgeM3(config, seed)
    /\ rng = 0
    /\ call = <<>>
    /\ head \in HeadCalls(VocabSize)

NextHeads ==
    \/ SparseEmbeddingCall
    \/ ColbertEmbeddingCall

SpecHeads == InitHeads /\ [][NextHeads]_vars

(***************************************************************************)
(* SpecPar: two forward calls on independent batches over one model,       *)
(* their blocks interleaved in every order.                                *)
(***************************************************************************)
ParConfigs ==
    {config \in Configs :
        /\ config.embed_dim = 1
        /\ config.attn_dim = 2
        /\ config.num_heads = 1
        /\ config.position_size = MaxSeq}

ParCalls(V) ==
    {NewCall([b \in {0} |-> [t \in 0..(MaxSeq - 1) |-> IF t = 0 THEN id ELSE V - 1]], types) :
        id \in {0, V}, types \in TypeIds(1, MaxSeq)}

InitPar ==
    /\ \E config \in ParConfigs : model = NewBgeM3(config, 0)
    /\ rng = 0
    /\ call \in [{1, 2} -> ParCalls(VocabSize)]
    /\ head = NoHead

SpecPar == InitPar /\ [][Next]_vars

(***************************************************************************)
(* BgeM3.forward run alone, start to end: the outcome its caller sees.     *)
(***************************************************************************)
RECURSIVE AttentionsFrom(_, _, _)
AttentionsFrom(m, x, i) ==
    IF i > m.num_of_attn_layers THEN Ok(x)
    ELSE LET a == MultiHeadSelfAttention_forward(m.attentions[i].attention, x)
         IN  IF ~a.ok THEN a
             ELSE LET f == FFN_forward(m.attentions[i].ffn, a.val)
                  IN  IF ~f.ok THEN f ELSE AttentionsFrom(m, f.val, i + 1)

BgeM3_forward(m, input_ids, token_type_ids) ==
    LET embed == BgeM3Embedding_forward(m.embedding, input_ids, token_type_ids)
    IN  IF ~embed.ok THEN embed
        ELSE LET out == AttentionsFrom(m, embed.val, 1)
             IN  IF ~out.ok THEN out
                 ELSE LET sparse == _sparse_embedding_shape(m, out.val, input_ids, TRUE)
                          colbert == _colbert_embedding_shape(m, out.val, input_ids)
                      IN  IF ~sparse.ok THEN sparse
                          ELSE IF ~colbert.ok THEN colbert
                          ELSE Ok([dense |-> <<out.val[1], out.val[3]>>,
                                   sparse |-> sparse.val, colbert |-> colbert.val])

(***************************************************************************)
(* Properties.                                                             *)
(***************************************************************************)
cfg == model.config

BatchOf(c) == Size0(call[c].input_ids)

SeqOf(c) == Size1(call[c].input_ids)

IdsInRange(c) == \A i \in Entries(call[c].input_ids) : 0 <= i /\ i < cfg.word_size

FitsPositions(c) == SeqOf(c) <= cfg.position_size

TypesZero(c) ==
    call[c].token_type_ids.present => Entries(call[c].token_type_ids.val) \subseteq {0}

Divisible == cfg.attn_dim % cfg.num_heads = 0

(* The four reserved token ids of the tokenizer (class, pad, end, unknown). *)
ReservedIds == {0, 1, 2, 3}

(* C1: on ids in [0,V) with 1 <= T <= P and no type ids, forward completes *)
(* without a fault and returns dense (B,O), sparse (B,V) and multi-vector  *)
(* (B,T-1,O).  Stated for the configurations with O = E and A divisible by *)
(* n, where no dimension precondition is at stake.                         *)
C1_ForwardReturnsThreeTensors ==
    \A c \in DOMAIN call :
        ( /\ call[c].pc = "done"
          /\ IdsInRange(c) /\ FitsPositions(c) /\ ~call[c].token_type_ids.present
          /\ cfg.attn_output_dim = cfg.embed_dim /\ Divisible )
        => /\ call[c].result.ok
           /\ call[c].result.val =
                [dense |-> <<BatchOf(c), cfg.attn_output_dim>>,
                 sparse |-> <<BatchOf(c), cfg.word_size>>,
                 colbert |-> <<BatchOf(c), SeqOf(c) - 1, cfg.attn_output_dim>>]

(* C5: forward hands the multi-vector head the token ids as its mask and   *)
(* returns the rows that head computed.  Stated for valid input with a     *)
(* nonzero id at some position t >= 1 and a configuration with O = E and A *)
(* divisible by n: the call returns, and the multi-vector head was entered *)
(* on the last layer's output.                                             *)
C5_ForwardRunsMultiVectorHead ==
    \A c \in DOMAIN call :
        ( /\ call[c].pc = "done"
          /\ IdsInRange(c) /\ FitsPositions(c) /\ TypesZero(c)
          /\ \E t \in 1..(SeqOf(c) - 1) : call[c].input_ids[0][t] # 0
          /\ cfg.attn_output_dim = cfg.embed_dim /\ Divisible )
        => /\ call[c].result.ok
           /\ \E i \in DOMAIN call[c].reads : call[c].reads[i].head = "colbert"

(* C6: when A is not divisible by n, no attention block ever returns and   *)
(* every forward call ends in a fault; a call that passes the embedding of *)
(* a model with at least one layer faults at the first layer's reshape.    *)
C6_NonDivisibleHeadsFault ==
    \A c \in DOMAIN call :
        ~Divisible =>
            /\ \A i \in DOMAIN call[c].trace : call[c].trace[i].block # "attention"
            /\ call[c].pc = "done" =>
                /\ ~call[c].result.ok
                /\ (call[c].trace # <<>> /\ cfg.num_of_attn_layers >= 1)
                    => call[c].result = Fault("RuntimeError", "attention.view")

C6_Witness ==
    \E c \in DOMAIN call :
        /\ ~Divisible
        /\ call[c].pc = "done"
        /\ call[c].result = Fault("RuntimeError", "attention.view")

(* C7: a call with a token id outside [0,V), a nonzero type id, or T > P   *)
(* faults in the embedding lookup: no block has returned, no head was      *)
(* entered, and the caller receives the lookup's fault and no output.      *)
IdFault(c) == ~IdsInRange(c) \/ ~FitsPositions(c) \/ ~TypesZero(c)

C7_IdFaultsInEmbedding ==
    \A c \in DOMAIN call :
        IdFault(c) =>
            /\ call[c].trace = <<>>
            /\ call[c].reads = <<>>
            /\ call[c].pc \in {"embedding", "done"}
            /\ call[c].pc = "done" =>
                call[c].result =
                    Fault("IndexError",
                          IF ~IdsInRange(c) THEN "word_embedding"
                          ELSE IF ~FitsPositions(c) THEN "position_embedding"
                          ELSE "token_type_embedding")

C7_Witness ==
    \E c \in DOMAIN call :
        /\ call[c].pc = "done"
        /\ IdsInRange(c) /\ FitsPositions(c) /\ ~TypesZero(c)
        /\ call[c].result = Fault("IndexError", "token_type_embedding")

(* C9: the blocks return in construction order, embedding, then for each   *)
(* layer 1..L its attention and then its feed-forward block, each once and *)
(* each fed the output of the block before it; when the heads are reached  *)
(* all L layers have run, and every head entered is handed the output of   *)
(* layer L.                                                                *)
ExpectedBlock(i) ==
    IF i = 1 THEN "embedding" ELSE IF i % 2 = 0 THEN "attention" ELSE "ffn"

C10_MismatchFaultsAtProjection ==
    \A c \in DOMAIN call :
        ( /\ call[c].pc = "done"
          /\ cfg.attn_output_dim # cfg.embed_dim
          /\ cfg.num_of_attn_layers >= 1 )
        => call[c].result =
             Fault("RuntimeError",
                   IF cfg.num_of_attn_layers >= 2 THEN "attention.q" ELSE "sparse_linear")

(* C10 amended: every block that returned was built for the width it was   *)
(* fed, which is the width the block before it emitted; and with O # E and *)
(* L >= 1, a call that passes the embedding lookup, on a model with A      *)
(* divisible by n, faults with a dimension mismatch at the second layer's  *)
(* attention projection when L >= 2 and at the sparse projection when      *)
(* L = 1.                                                                  *)
C10_WidthsAgreeOrFault ==
    \A c \in DOMAIN call :
        LET trace == call[c].trace
        IN  /\ \A i \in DOMAIN trace :
                i > 1 => /\ trace[i].expects = trace[i].got
                         /\ trace[i].got = trace[i - 1].emits
            /\ ( /\ call[c].pc = "done"
                 /\ cfg.attn_output_dim # cfg.embed_dim
                 /\ cfg.num_of_attn_layers >= 1
                 /\ Divisible
                 /\ ~IdFault(c) )
               => /\ call[c].result =
                        Fault("RuntimeError",
                              IF cfg.num_of_attn_layers >= 2 THEN "attention.q"
                              ELSE "sparse_linear")
                  /\ call[c].layer = 1

C10_Witness ==
    \E c \in DOMAIN call :
        /\ call[c].pc = "done"
        /\ cfg.attn_output_dim # cfg.embed_dim
        /\ cfg.num_of_attn_layers >= 2
        /\ call[c].layer = 1
        /\ call[c].result = Fault("RuntimeError", "attention.q")

(***************************************************************************)
(* Properties of the head methods (SpecHeads).                             *)
(***************************************************************************)
SparseDone ==
    /\ head.pc = "done"
    /\ head.fn = "_sparse_embedding"
    /\ head.return_embedding
    /\ ShapeOf(head.hidden_state)[3] = cfg.embed_dim

ColbertDone ==
    /\ head.pc = "done"
    /\ head.fn = "_colbert_embedding"
    /\ ShapeOf(head.hidden_state)[3] = cfg.embed_dim

(* The rectified weight position t of row b computed for vocabulary slot v. *)
TokenWeight(b, t, v) == relu(Linear(model.sparse_linear, head.hidden_state[b][t])[v])

(* The projected vector of position t of row b, before any masking. *)
Projected(b, t) == Linear(model.colbert_linear, head.hidden_state[b][t])

SetMax(S) == CHOOSE x \in S : \A y \in S : y <= x

(* C2: the sparse head returns a vector whose entries are all >= 0 and     *)
(* whose entries at the four reserved indices are exactly zero.            *)
C2_SparseNonNegativeReservedZero ==
    SparseDone =>
        /\ head.result.ok
        /\ \A b \in DOMAIN head.result.val : \A v \in DOMAIN head.result.val[b] :
            /\ head.result.val[b][v] >= 0
            /\ v \in ReservedIds => head.result.val[b][v] = 0

(* C3: for every row b and non-reserved slot v, sparse[b][v] is the        *)
(* maximum over the positions t holding token v of the rectified weight    *)
(* position t computed for slot v, and zero when no position holds v.      *)
(* Stated for the inputs in which some position holds a non-reserved       *)
(* token.                                                                  *)
C3_SparseIsMaxOfOwnVotes ==
    (SparseDone /\ ~(Entries(head.input_ids) \subseteq ReservedIds)) =>
        /\ head.result.ok
        /\ \A b \in DOMAIN head.input_ids : \A v \in (0..(cfg.word_size - 1)) \ ReservedIds :
            LET votes == {TokenWeight(b, t, v) :
                            t \in {u \in DOMAIN head.input_ids[b] : head.input_ids[b][u] = v}}
            IN  head.result.val[b][v] = IF votes = {} THEN 0 ELSE SetMax(votes)

(* C4 as stated: the row of position t is all-zero when mask[b][t] is      *)
(* falsy and the unmasked projected vector when mask[b][t] is truthy.      *)
C4_RowKeptWhenTruthy ==
    ColbertDone =>
        /\ head.result.ok
        /\ \A b \in DOMAIN head.mask : \A t \in 1..(Size1(head.mask) - 1) :
            head.result.val[b][t - 1] =
                IF head.mask[b][t] # 0 THEN Projected(b, t)
                ELSE [o \in DOMAIN Projected(b, t) |-> 0]

(* C4 amended: the head returns a (B,T-1,E) tensor, never compacted, whose *)
(* row for position t (1 <= t <= T-1) is the projected vector of position  *)
(* t multiplied by the number mask[b][t]: all-zero where the mask is 0     *)
(* (False), the unmasked projected vector where it is 1 (True); position 0 *)
(* of the hidden state and of the mask does not enter the result.          *)
C4_RowIsMaskTimesProjection ==
    ColbertDone =>
        /\ head.result.ok
        /\ DOMAIN head.result.val = 0..(Size0(head.hidden_state) - 1)
        /\ \A b \in DOMAIN head.result.val :
            /\ DOMAIN head.result.val[b] = 0..(Size1(head.hidden_state) - 2)
            /\ \A t \in 1..(Size1(head.hidden_state) - 1) :
                /\ DOMAIN head.result.val[b][t - 1] = 0..(cfg.embed_dim - 1)
                /\ \A o \in 0..(cfg.embed_dim - 1) :
                    head.result.val[b][t - 1][o] = Projected(b, t)[o] * head.mask[b][t]
                /\ head.mask[b][t] = 0 =>
                    \A o \in 0..(cfg.embed_dim - 1) : head.result.val[b][t - 1][o] = 0
                /\ head.mask[b][t] = 1 => head.result.val[b][t - 1] = Projected(b, t)

C4_Witness ==
    /\ ColbertDone
    /\ head.result.ok
    /\ Size1(head.mask) >= 3
    /\ head.mask[0][0] # head.mask[0][1]
    /\ \E t \in 1..(Size1(head.mask) - 1) :
        /\ head.mask[0][t] = 1
        /\ \E o \in DOMAIN Projected(0, t) : head.result.val[0][t - 1][o] # 0
    /\ \E t \in 1..(Size1(head.mask) - 1) :
        /\ head.mask[0][t] = 0
        /\ \E o \in DOMAIN Projected(0, t) : Projected(0, t)[o] # 0

(***************************************************************************)
(* Properties of interleaved forward calls (SpecPar).                      *)
(***************************************************************************)
CallersTensorsKept ==
    \A c \in DOMAIN call :
        /\ call'[c].input_ids = call[c].input_ids
        /\ call'[c].token_type_ids = call[c].token_type_ids

OutcomeAsAlone ==
    \A c \in DOMAIN call :
        call[c].pc = "done" =>
            call[c].result = BgeM3_forward(model, call[c].input_ids, call[c].token_type_ids)

(* C8 as stated: a step of a forward call leaves the parameters and the    *)
(* caller's tensors unchanged and writes nothing but the call's own        *)
(* tensors.                                                                *)
C8_WritesOnlyOwnTensors ==
    [][model' = model /\ CallersTensorsKept /\ rng' = rng]_vars

(* C8 amended: a step of a forward call leaves the parameters and the      *)
(* caller's input_ids and token_type_ids unchanged and writes, besides the *)
(* stepping call's own tensors, only the global random generator, which a  *)
(* feed-forward block's dropout advances when the module is in training    *)
(* mode and dropout_prob > 0; under every interleaving each call ends with *)
(* the outcome it has when run alone.                                      *)
C8_FrameAndIsolation ==
    /\ [][ /\ model' = model
           /\ CallersTensorsKept
           /\ \E c \in DOMAIN call : \A d \in DOMAIN call \ {c} : call'[d] = call[d]
           /\ rng' # rng =>
                /\ model.training /\ cfg.dropout_prob > 0
                /\ \E c \in DOMAIN call : call[c].pc = "ffn" /\ call'[c].pc # "ffn" ]_vars
    /\ []OutcomeAsAlone

C8_Witness ==
    /\ \A c \in DOMAIN call : call[c].pc = "done"
    /\ rng >= 2
    /\ \E c \in DOMAIN call : call[c].token_type_ids.present
    /\ \E c \in DOMAIN call : call[c].result.at = "vocab_size"
    /\ \E c \in DOMAIN call : call[c].result.at = "word_embedding"

====
